---- MODULE Spec2Model ----
(***************************************************************************)
(* A model of src/app.py: the bill-text parsers (parse_header_fields,      *)
(* parse_usage_lines) and the template writer (write_usage_to_template).   *)
(* A Python str is a sequence of one-character strings; a regular          *)
(* expression is a tree matched by a backtracking matcher that lists its   *)
(* matches in the priority order of Python's re module.                    *)
(***************************************************************************)
EXTENDS Integers, Sequences, FiniteSets, TLC

VARIABLES text, upc, parsed, cleaned, result,
          hpc, out,
          template, headers, usage_lines_final, wpc, ws, wi, output, run

vars == <<text, upc, parsed, cleaned, result, hpc, out,
          template, headers, usage_lines_final, wpc, ws, wi, output, run>>

usageVars == <<text, upc, parsed, cleaned, result>>
headerVars == <<hpc, out>>
writerVars == <<template, headers, usage_lines_final, wpc, ws, wi, output, run>>

\* ------------------------------------------------------------------
\* Characters and strings
\* ------------------------------------------------------------------
UpperSeq == <<"A","B","C","D","E","F","G","H","I","J","K","L","M",
              "N","O","P","Q","R","S","T","U","V","W","X","Y","Z">>
LowerSeq == <<"a","b","c","d","e","f","g","h","i","j","k","l","m",
              "n","o","p","q","r","s","t","u","v","w","x","y","z">>
DigitSeq == <<"0","1","2","3","4","5","6","7","8","9">>

Range(f) == {f[i] : i \in DOMAIN f}
UpperSet == Range(UpperSeq)
LowerSet == Range(LowerSeq)
DigitSet == Range(DigitSeq)
\* \s of the re module (str patterns, ASCII part)
SpaceSet == {" ", "\t", "\n", "\r", "\f"}
\* \w of the re module (ASCII part)
WordSet == UpperSet \cup LowerSet \cup DigitSet \cup {"_"}

\* str.lower() of one character
Lower(c) == IF c \in UpperSet
            THEN LowerSeq[CHOOSE i \in DOMAIN UpperSeq : UpperSeq[i] = c]
            ELSE c
\* str.upper() of one character
Upper(c) == IF c \in LowerSet
            THEN UpperSeq[CHOOSE i \in DOMAIN LowerSeq : LowerSeq[i] = c]
            ELSE c

\* int(c) of a digit character
DigitVal(c) == (CHOOSE i \in DOMAIN DigitSeq : DigitSeq[i] = c) - 1

\* s[a-1:b-1] of Python, 1-based and inclusive here
Slice(s, a, b) == IF a > b THEN <<>> ELSE SubSeq(s, a, b)

\* the j-th smallest member of a set of numbers
Nth(T, j) == CHOOSE i \in T : Cardinality({k \in T : k <= i}) = j

RECURSIVE Concat(_)
\* "".join(seqs)
Concat(seqs) == IF seqs = <<>> THEN <<>> ELSE Head(seqs) \o Concat(Tail(seqs))

RECURSIVE LStrip(_, _)
LStrip(s, T) == IF s # <<>> /\ Head(s) \in T THEN LStrip(Tail(s), T) ELSE s
RECURSIVE RStrip(_, _)
RStrip(s, T) == IF s # <<>> /\ s[Len(s)] \in T
                THEN RStrip(SubSeq(s, 1, Len(s) - 1), T) ELSE s
\* str.strip(chars); str.strip() is StripOf(s, SpaceSet)
StripOf(s, T) == RStrip(LStrip(s, T), T)
Strip(s) == StripOf(s, SpaceSet)

RECURSIVE Remove(_, _)
\* s.replace(c, "") for each character c of T
Remove(s, T) == IF s = <<>> THEN <<>>
                ELSE IF Head(s) \in T THEN Remove(Tail(s), T)
                ELSE <<Head(s)>> \o Remove(Tail(s), T)

\* ------------------------------------------------------------------
\* Regular expressions: syntax trees
\* ------------------------------------------------------------------
Chr(c) == [k |-> "chr", c |-> c]
Set(T) == [k |-> "set", s |-> T, neg |-> FALSE]
NotSet(T) == [k |-> "set", s |-> T, neg |-> TRUE]
Cat(parts) == [k |-> "cat", parts |-> parts]
Alt(parts) == [k |-> "alt", parts |-> parts]
\* r{lo,hi}, greedy; hi = -1 is no upper limit
Rep(r, lo, hi) == [k |-> "rep", r |-> r, lo |-> lo, hi |-> hi]
Star(r) == Rep(r, 0, -1)
Plus(r) == Rep(r, 1, -1)
Opt(r) == Rep(r, 0, 1)
Grp(n, r) == [k |-> "grp", n |-> n, r |-> r]
WB == [k |-> "wb"]
BOL == [k |-> "bol"]
EOL == [k |-> "eol"]
\* a literal word
Lit(w) == Cat([i \in DOMAIN w |-> Chr(w[i])])
Dg == Set(DigitSet)
Sp == Set(SpaceSet)

\* no group has taken part in the match
NoCaps == <<<<>>, <<>>>>

\* one character against a literal or a class (re.IGNORECASE when ic)
CharIn(c, T, ic) == c \in T \/ (ic /\ (Lower(c) \in T \/ Upper(c) \in T))

\* \b at position i of s
AtWordBoundary(s, i) ==
    LET before == i > 1 /\ s[i - 1] \in WordSet
        after == i <= Len(s) /\ s[i] \in WordSet
    IN before # after

RECURSIVE M(_, _, _, _, _)
RECURSIVE MCat(_, _, _, _, _, _)
RECURSIVE MAlt(_, _, _, _, _, _)
RECURSIVE MRep(_, _, _, _, _, _)
RECURSIVE MThen(_, _, _, _, _, _)
RECURSIVE MRepThen(_, _, _, _, _, _)

\* every match of re at position i of s, best first: <<[pos, caps], ...>>
M(re, s, i, caps, ic) ==
    CASE re.k = "chr" ->
            IF i <= Len(s) /\ CharIn(s[i], {re.c}, ic)
            THEN <<[pos |-> i + 1, caps |-> caps]>> ELSE <<>>
      [] re.k = "set" ->
            IF i <= Len(s) /\ (CharIn(s[i], re.s, ic) # re.neg)
            THEN <<[pos |-> i + 1, caps |-> caps]>> ELSE <<>>
      [] re.k = "cat" -> MCat(re.parts, 1, s, i, caps, ic)
      [] re.k = "alt" -> MAlt(re.parts, 1, s, i, caps, ic)
      [] re.k = "rep" -> MRep(re, 0, s, i, caps, ic)
      [] re.k = "grp" ->
            LET inner == M(re.r, s, i, caps, ic)
            IN [j \in DOMAIN inner |->
                   [pos |-> inner[j].pos,
                    caps |-> [inner[j].caps EXCEPT ![re.n] = <<i, inner[j].pos>>]]]
      [] re.k = "wb" ->
            IF AtWordBoundary(s, i) THEN <<[pos |-> i, caps |-> caps]>> ELSE <<>>
      [] re.k = "bol" ->
            IF i = 1 THEN <<[pos |-> i, caps |-> caps]>> ELSE <<>>
      [] re.k = "eol" ->
            IF i = Len(s) + 1 \/ (i = Len(s) /\ s[i] = "\n")
            THEN <<[pos |-> i, caps |-> caps]>> ELSE <<>>

\* the matches of parts[k..] after each of the matches `first` of parts[k-1]
MThen(first, parts, k, s, j, ic) ==
    IF j > Len(first) THEN <<>>
    ELSE MCat(parts, k, s, first[j].pos, first[j].caps, ic)
         \o MThen(first, parts, k, s, j + 1, ic)

MCat(parts, k, s, i, caps, ic) ==
    IF k > Len(parts) THEN <<[pos |-> i, caps |-> caps]>>
    ELSE MThen(M(parts[k], s, i, caps, ic), parts, k + 1, s, 1, ic)

MAlt(parts, k, s, i, caps, ic) ==
    IF k > Len(parts) THEN <<>>
    ELSE M(parts[k], s, i, caps, ic) \o MAlt(parts, k + 1, s, i, caps, ic)

\* further repetitions after each of the matches `first` of one repetition
MRepThen(first, re, n, s, j, ic) ==
    IF j > Len(first) THEN <<>>
    ELSE MRep(re, n, s, first[j].pos, first[j].caps, ic)
         \o MRepThen(first, re, n, s, j + 1, ic)

\* greedy: one more repetition first, then stopping after n of them
MRep(re, n, s, i, caps, ic) ==
    LET once == IF re.hi = -1 \/ n < re.hi THEN M(re.r, s, i, caps, ic) ELSE <<>>
        moved == SelectSeq(once, LAMBDA r : r.pos > i)
    IN MRepThen(moved, re, n + 1, s, 1, ic)
       \o (IF n >= re.lo THEN <<[pos |-> i, caps |-> caps]>> ELSE <<>>)

\* no match
NoMatch == [start |-> 0, end |-> 0, caps |-> NoCaps]

RECURSIVE SearchFrom(_, _, _, _)
\* re.search(re, s) scanning from position `from`: the leftmost match
SearchFrom(re, s, from, ic) ==
    IF from > Len(s) + 1 THEN NoMatch
    ELSE LET ms == M(re, s, from, NoCaps, ic)
         IN IF ms # <<>>
            THEN [start |-> from, end |-> ms[1].pos, caps |-> ms[1].caps]
            ELSE SearchFrom(re, s, from + 1, ic)

Search(re, s, ic) == SearchFrom(re, s, 1, ic)
Found(m) == m.start # 0
\* m.group(0)
Group0(s, m) == Slice(s, m.start, m.end - 1)

RECURSIVE FindAllFrom(_, _, _)
\* re.findall(re, s) of a pattern without groups that matches no empty string
FindAllFrom(re, s, from) ==
    LET m == SearchFrom(re, s, from, FALSE)
    IN IF ~Found(m) THEN <<>>
       ELSE <<Group0(s, m)>> \o FindAllFrom(re, s, m.end)
FindAll(re, s) == FindAllFrom(re, s, 1)

RECURSIVE SubFrom(_, _, _, _)
\* re.sub(re, repl, s) of a pattern that matches no empty string
SubFrom(re, repl, s, from) ==
    LET m == SearchFrom(re, s, from, FALSE)
    IN IF ~Found(m) THEN Slice(s, from, Len(s))
       ELSE Slice(s, from, m.start - 1) \o repl \o SubFrom(re, repl, s, m.end)
Sub(re, repl, s) == SubFrom(re, repl, s, 1)

\* ------------------------------------------------------------------
\* parse_usage_lines: patterns
\* ------------------------------------------------------------------
\* (?:\.\d+)
DotDigits == Cat(<<Chr("."), Plus(Dg)>>)
\* r"\$?[\d,]+(?:\.\d+)?"
NumberRE == Cat(<<Opt(Chr("$")), Plus(Set(DigitSet \cup {","})), Opt(DotDigits)>>)
\* PCT_RE = r"(\d{1,2}(?:\.\d+)?\s*\%)"
PCT_RE == Grp(1, Cat(<<Rep(Dg, 1, 2), Opt(DotDigits), Star(Sp), Chr("%")>>))
\* r"\d+\s*%"
PctTokenRE == Cat(<<Plus(Dg), Star(Sp), Chr("%")>>)
\* r"^\d+\.\d{3,4}$"
RateShapeRE == Cat(<<BOL, Plus(Dg), Chr("."), Rep(Dg, 3, 4), EOL>>)
\* r"\s{2,}"
MultiSpaceRE == Rep(Sp, 2, -1)
\* r"\d"
DigitRE == Dg
\* COMMON_KEYWORDS
COMMON_KEYWORDS ==
    Cat(<<WB,
          Grp(1, Alt(<<Lit(<<"p","e","a","k">>),
                       Cat(<<Lit(<<"o","f","f">>), Opt(Set({"-"} \cup SpaceSet)),
                             Lit(<<"p","e","a","k">>)>>),
                       Lit(<<"s","t","a","n","d","i","n","g">>),
                       Lit(<<"s","u","p","p","l","y">>),
                       Lit(<<"d","e","m","a","n","d">>),
                       Lit(<<"s","o","l","a","r">>),
                       Lit(<<"f","e","e","d">>),
                       Lit(<<"c","o","n","c","e","s","s","i","o","n">>),
                       Lit(<<"u","s","a","g","e">>),
                       Lit(<<"k","w","h">>),
                       Lit(<<"f","i","x","e","d">>),
                       Lit(<<"d","a","i","l","y">>),
                       Lit(<<"a","n","n","u","a","l">>)>>)),
          WB>>)
WordTotal == Lit(<<"t","o","t","a","l">>)
WordGst == Lit(<<"g","s","t">>)
WordBalance == Lit(<<"b","a","l","a","n","c","e">>)
WordAmountDue == Lit(<<"a","m","o","u","n","t"," ","d","u","e">>)
\* r"\btotal\b"
TotalRE == Cat(<<WB, WordTotal, WB>>)
\* r"\b(total|gst|balance|amount due)\b"
FallbackSkipRE ==
    Cat(<<WB, Grp(1, Alt(<<WordTotal, WordGst, WordBalance, WordAmountDue>>)), WB>>)
\* r"\b(total|gst|amount due|balance)\b"
SummaryRE ==
    Cat(<<WB, Grp(1, Alt(<<WordTotal, WordGst, WordAmountDue, WordBalance>>)), WB>>)

\* ------------------------------------------------------------------
\* Numbers: float(s), comparison, str(float(s))
\* ------------------------------------------------------------------
\* the position of the first "." of s, or Len(s) + 1
DotAt(s) == IF \E i \in DOMAIN s : s[i] = "."
            THEN CHOOSE i \in DOMAIN s : s[i] = "." /\ \A j \in 1..(i - 1) : s[j] # "."
            ELSE Len(s) + 1
IntDigits(s) == Slice(s, 1, DotAt(s) - 1)
FracDigits(s) == Slice(s, DotAt(s) + 1, Len(s))
AllDigits(s) == \A i \in DOMAIN s : s[i] \in DigitSet
\* float(s) succeeds: digits with at most one ".", at least one digit
\* (the forms a numeric token can take; float("") raises ValueError)
CanFloat(s) == /\ AllDigits(IntDigits(s))
               /\ AllDigits(FracDigits(s))
               /\ Len(IntDigits(s)) + Len(FracDigits(s)) > 0
\* the integer part without leading zeros, the fraction without trailing zeros
IntNorm(s) == LStrip(IntDigits(s), {"0"})
FracNorm(s) == RStrip(FracDigits(s), {"0"})

RECURSIVE LexLess(_, _)
\* digit strings: a before b, a proper prefix first
LexLess(a, b) ==
    IF b = <<>> THEN FALSE
    ELSE IF a = <<>> THEN TRUE
    ELSE IF Head(a) # Head(b) THEN DigitVal(Head(a)) < DigitVal(Head(b))
    ELSE LexLess(Tail(a), Tail(b))

\* float(a) < float(b)
FloatLess(a, b) ==
    IF Len(IntNorm(a)) # Len(IntNorm(b)) THEN Len(IntNorm(a)) < Len(IntNorm(b))
    ELSE IF IntNorm(a) # IntNorm(b) THEN LexLess(IntNorm(a), IntNorm(b))
    ELSE LexLess(FracNorm(a), FracNorm(b))
\* float(n) < 10
LessThanTen(n) == FloatLess(n, <<"1","0">>)

\* str(float(s)) for a value printed in positional notation
StrFloat(s) ==
    (IF IntNorm(s) = <<>> THEN <<"0">> ELSE IntNorm(s))
    \o <<".">> \o (IF FracNorm(s) = <<>> THEN <<"0">> ELSE FracNorm(s))

RECURSIVE MaxByFloat(_, _)
\* max(others, key=float) continued: best so far, the first of equals kept
MaxByFloat(best, rest) ==
    IF rest = <<>> THEN best
    ELSE MaxByFloat(IF FloatLess(best, Head(rest)) THEN Head(rest) ELSE best,
                    Tail(rest))

\* ------------------------------------------------------------------
\* parse_usage_lines
\* ------------------------------------------------------------------
\* extract_numbers_from_string
extract_numbers_from_string(s) ==
    LET found == FindAll(NumberRE, s)
    IN [i \in DOMAIN found |-> Remove(found[i], {"$", ","})]

\* the characters str.splitlines() breaks at
LineBreaks == {"\n", "\r", "\f"}
\* the first line break of s at or after i, or Len(s) + 1
NextBreak(s, i) ==
    LET breaks == {j \in i..Len(s) : s[j] \in LineBreaks}
    IN IF breaks = {} THEN Len(s) + 1
       ELSE CHOOSE j \in breaks : \A k \in breaks : j <= k
RECURSIVE SplitLinesFrom(_, _)
\* text.splitlines() from position i on ("\r\n" is one break)
SplitLinesFrom(s, i) ==
    IF i > Len(s) THEN <<>>
    ELSE LET j == NextBreak(s, i)
         IN <<Slice(s, i, j - 1)>>
            \o (IF j > Len(s) THEN <<>>
                ELSE SplitLinesFrom(s,
                       IF s[j] = "\r" /\ j < Len(s) /\ s[j + 1] = "\n"
                       THEN j + 2 ELSE j + 1))
SplitLines(s) == SplitLinesFrom(s, 1)

\* lines = [ln.strip() for ln in text.splitlines() if ln.strip()]
UsageLines(t) ==
    LET raw == SplitLines(t)
        stripped == [i \in DOMAIN raw |-> Strip(raw[i])]
    IN SelectSeq(stripped, LAMBDA ln : ln # <<>>)

\* possible_rates of the primary pass
IsPossibleRate(n) == Found(Search(RateShapeRE, n, FALSE)) \/ LessThanTen(n)

\* PickUnitsRate with a lone number always taken as the units
PickUnitsRate_LoneIsUnits(nums) ==
    IF nums = <<>> THEN [Units |-> <<>>, Rate |-> <<>>]
    ELSE IF Len(nums) = 1 THEN [Units |-> nums[1], Rate |-> <<>>]
    ELSE LET possible_rates == SelectSeq(nums, IsPossibleRate)
         IN IF possible_rates # <<>>
            THEN LET rate == possible_rates[1]
                     others == SelectSeq(nums, LAMBDA n : n # rate)
                 IN [Units |-> IF others # <<>>
                               THEN MaxByFloat(Head(others), Tail(others))
                               ELSE <<>>,
                     Rate |-> rate]
            ELSE [Units |-> nums[1], Rate |-> nums[2]]

\* lines 176-198: units and rate of a line's numbers, none of them empty
PickUnitsRate(nums) ==
    IF nums = <<>> THEN [Units |-> <<>>, Rate |-> <<>>]
    ELSE LET possible_rates == SelectSeq(nums, IsPossibleRate)
         IN IF possible_rates # <<>>
            THEN LET rate == possible_rates[1]
                     others == SelectSeq(nums, LAMBDA n : n # rate)
                 IN [Units |-> IF others # <<>>
                               THEN MaxByFloat(Head(others), Tail(others))
                               ELSE <<>>,
                     Rate |-> rate]
            ELSE IF Len(nums) >= 2
                 THEN [Units |-> nums[1], Rate |-> nums[2]]
                 ELSE [Units |-> nums[1], Rate |-> <<>>]

\* the primary pass's test of a line
PrimaryAccepts(ln) ==
    /\ Found(Search(COMMON_KEYWORDS, ln, TRUE))
    /\ Found(Search(DigitRE, ln, FALSE))
    /\ ~Found(Search(TotalRE, ln, TRUE))

\* discount of a line: group 1 of PCT_RE
DiscountOf(ln) ==
    LET m == Search(PCT_RE, ln, FALSE)
    IN IF Found(m) THEN Slice(ln, m.caps[1][1], m.caps[1][2] - 1) ELSE <<>>

\* lines 199-202: the description of a line of the primary pass
PrimaryDescription(ln) ==
    StripOf(Sub(PctTokenRE, <<>>, Sub(NumberRE, <<>>, ln)), {" ", "-", ":", "|"})

\* float(n) of the possible_rates test raises ValueError on an empty token
PrimaryRaises(ln) ==
    LET nums == extract_numbers_from_string(ln)
    IN \E i \in DOMAIN nums : ~CanFloat(nums[i])

\* the record the primary pass appends for an accepted line
PrimaryRecord(ln) ==
    LET ur == PickUnitsRate(extract_numbers_from_string(ln))
    IN [Units |-> ur.Units,
        Description |-> PrimaryDescription(ln),
        Rate |-> ur.Rate,
        Discount |-> Remove(DiscountOf(ln), {" "})]

RECURSIVE PrimaryPass(_, _, _)
\* lines 163-209 from line i on: [raised, parsed]
PrimaryPass(lines, i, acc) ==
    IF i > Len(lines) THEN [raised |-> FALSE, parsed |-> acc]
    ELSE IF ~PrimaryAccepts(lines[i]) THEN PrimaryPass(lines, i + 1, acc)
    ELSE IF PrimaryRaises(lines[i]) THEN [raised |-> TRUE, parsed |-> acc]
    ELSE PrimaryPass(lines, i + 1, Append(acc, PrimaryRecord(lines[i])))

\* the fallback pass's test of a line
FallbackAccepts(ln) ==
    /\ Len(extract_numbers_from_string(ln)) >= 2
    /\ ~Found(Search(FallbackSkipRE, ln, TRUE))

\* float(n) of the fallback's possible_rates raises on an empty token of nums[1:]
FallbackRaises(ln) ==
    LET nums == extract_numbers_from_string(ln)
    IN \E i \in 2..Len(nums) : ~CanFloat(nums[i])

\* lines 216-228: the record the fallback pass appends
FallbackRecord(ln) ==
    LET nums == extract_numbers_from_string(ln)
        possible_rates == SelectSeq(Tail(nums), LessThanTen)
    IN [Units |-> nums[1],
        Description |-> StripOf(Sub(NumberRE, <<>>, ln), {" ", "-", ":", "|"}),
        Rate |-> IF possible_rates # <<>> THEN possible_rates[1]
                 ELSE IF Len(nums) > 1 THEN nums[2] ELSE <<>>,
        Discount |-> DiscountOf(ln)]

RECURSIVE FallbackLoop(_, _, _)
\* lines 213-228 from line i on: [raised, parsed]
FallbackLoop(lines, i, acc) ==
    IF i > Len(lines) THEN [raised |-> FALSE, parsed |-> acc]
    ELSE IF ~FallbackAccepts(lines[i]) THEN FallbackLoop(lines, i + 1, acc)
    ELSE IF FallbackRaises(lines[i]) THEN [raised |-> TRUE, parsed |-> acc]
    ELSE FallbackLoop(lines, i + 1, Append(acc, FallbackRecord(lines[i])))

\* clean_num
clean_num(s) ==
    IF s = <<>> THEN <<>>
    ELSE IF CanFloat(s) THEN StrFloat(s)
    ELSE Remove(s, {",", "$"})

\* lines 244-247: the item after its four fields are normalised
NormalizeItem(item) ==
    [Units |-> clean_num(item.Units),
     Description |-> Sub(MultiSpaceRE, <<" ">>, StripOf(item.Description, {",", ":", "-"})),
     Rate |-> clean_num(item.Rate),
     Discount |-> Remove(item.Discount, {" "})]

\* Keeps without the test for summary keywords
Keeps_AnyDescription(item) == item.Description # <<>>

\* line 249: the item is kept
Keeps(item) ==
    item.Description # <<>> /\ ~Found(Search(SummaryRE, item.Description, TRUE))

\* lines 232-247: every item normalised
NormalizeAll(items) == [i \in DOMAIN items |-> NormalizeItem(items[i])]
\* lines 231-250: cleaned
CleanItems(items) == SelectSeq(NormalizeAll(items), Keeps)

\* FallbackPass run also when the primary records are all ones the filter drops
FallbackPass_WhenNoneKept(lines, primary) ==
    IF primary = <<>> \/ CleanItems(primary) = <<>> THEN FallbackLoop(lines, 1, <<>>)
    ELSE [raised |-> FALSE, parsed |-> primary]

\* lines 211-228: "if not parsed:" and its loop
FallbackPass(lines, primary) ==
    IF primary = <<>> THEN FallbackLoop(lines, 1, <<>>)
    ELSE [raised |-> FALSE, parsed |-> primary]

\* line 253: the slice's limit
CapLimit == 30
\* Truncate keeping the last 30 items instead of the first
Truncate_Last(items) ==
    Slice(items, IF Len(items) < CapLimit THEN 1 ELSE Len(items) - CapLimit + 1, Len(items))
\* cleaned[:30]
Truncate(items) == Slice(items, 1, IF Len(items) < CapLimit THEN Len(items) ELSE CapLimit)

\* parse_usage_lines as a whole: [raised, result]
parse_usage_lines(t) ==
    LET lines == UsageLines(t)
        p1 == PrimaryPass(lines, 1, <<>>)
        p2 == FallbackPass(lines, p1.parsed)
    IN IF p1.raised \/ p2.raised THEN [raised |-> TRUE, result |-> <<>>]
       ELSE [raised |-> FALSE, result |-> Truncate(CleanItems(p2.parsed))]

\* ------------------------------------------------------------------
\* parse_usage_lines: the texts it is run on
\* ------------------------------------------------------------------
\* "Peak Usage 22,491.80 kWh @ $0.0632"
LnScenario1 == <<"P","e","a","k"," ","U","s","a","g","e"," ","2","2",",","4","9","1",".","8","0"," ","k","W","h"," ","@"," ","$","0",".","0","6","3","2">>
\* "Daily Supply 98"
LnSingleLarge == <<"D","a","i","l","y"," ","S","u","p","p","l","y"," ","9","8">>
\* "Peak subtotal 100 12"
LnSubtotal == <<"P","e","a","k"," ","s","u","b","t","o","t","a","l"," ","1","0","0"," ","1","2">>
\* "GST on peak 10.50"
LnGstPeak == <<"G","S","T"," ","o","n"," ","p","e","a","k"," ","1","0",".","5","0">>
\* "Total usage 5"
LnTotalUsage == <<"T","o","t","a","l"," ","u","s","a","g","e"," ","5">>
\* "100 20"
LnBareNumbers == <<"1","0","0"," ","2","0">>
\* "Acct 100 20"
LnAcct == <<"A","c","c","t"," ","1","0","0"," ","2","0">>
\* "Peak 100 kWh 5.5 % off"
LnPercent == <<"P","e","a","k"," ","1","0","0"," ","k","W","h"," ","5",".","5"," ","%"," ","o","f","f">>
\* "Peak, 100"
LnLoneComma == <<"P","e","a","k",","," ","1","0","0">>
\* "  "
LnBlank == <<" "," ">>
\* "balance 5 6"
LnBalance == <<"b","a","l","a","n","c","e"," ","5"," ","6">>
\* "amount  due 5 6"
LnAmountDue2 == <<"a","m","o","u","n","t"," "," ","d","u","e"," ","5"," ","6">>
\* "Peak 5"
LnSingleSmall == <<"P","e","a","k"," ","5">>
\* "kwh 98"
LnKwh98 == <<"k","w","h"," ","9","8">>
\* "kwh 5"
LnKwh5 == <<"k","w","h"," ","5">>
\* "gst kwh 1"
LnGstKwh == <<"g","s","t"," ","k","w","h"," ","1">>
\* "5"
Tok5 == <<"5">>
\* "1.231"
TokRate == <<"1",".","2","3","1">>
\* "98"
Tok98 == <<"9","8">>
\* "98.0"
Tok98p0 == <<"9","8",".","0">>
\* ","
TokComma == <<",">>
\* "Peak"
WordPeak == <<"P","e","a","k">>
\* "Acct"
WordAcct == <<"A","c","c","t">>

\* the texts of one line
SingleLines == {LnScenario1, LnSingleLarge, LnSubtotal, LnGstPeak, LnTotalUsage,
                LnBareNumbers, LnAcct, LnPercent, LnLoneComma, LnBlank, LnBalance,
                LnAmountDue2, LnSingleSmall}
\* the lines of the texts of several lines
LibLines == {LnSingleLarge, LnGstPeak, LnTotalUsage, LnAcct, LnLoneComma, LnBlank}
\* the numeric tokens of the generated lines, as they stand in the line
GenTokens == {Tok5, TokRate, Tok98, Tok98p0, TokComma}
\* the lines of the long texts: two that survive, one the filter drops
LongLines == {LnKwh98, LnKwh5, LnGstKwh}

\* most lines of a library text
MaxLines == 2
\* most numeric tokens of a generated line
MaxTok == 3
\* how far a long text goes beyond the limit of 30 records
LongExtra == 2

RECURSIVE JoinLines(_)
\* "\n".join(ls)
JoinLines(ls) == IF ls = <<>> THEN <<>>
                 ELSE IF Len(ls) = 1 THEN ls[1]
                 ELSE ls[1] \o <<"\n">> \o JoinLines(Tail(ls))
RECURSIVE JoinTokens(_)
\* each token after a space
JoinTokens(ts) == IF ts = <<>> THEN <<>> ELSE <<" ">> \o Head(ts) \o JoinTokens(Tail(ts))

LibTexts == SingleLines
            \cup {JoinLines(ls) : ls \in UNION {[1..k -> LibLines] : k \in 2..MaxLines}}
GenTexts == {w \o JoinTokens(ts) : w \in {WordPeak, WordAcct},
                                   ts \in UNION {[1..k -> GenTokens] : k \in 1..MaxTok}}
\* n lines: b is the second, a every other one
LongText(a, b, n) == JoinLines([i \in 1..n |-> IF i = 2 THEN b ELSE a])
LongTexts == {LongText(a, b, n) : a \in LongLines, b \in LongLines,
                                  n \in (CapLimit - 1)..(CapLimit + LongExtra)}
InputTexts == LibTexts \cup GenTexts \cup LongTexts

\* ------------------------------------------------------------------
\* parse_usage_lines: its steps
\* ------------------------------------------------------------------
HeaderIdle == /\ hpc = "idle" /\ out = <<>>
WriterIdle == /\ template = <<>> /\ headers = <<>> /\ usage_lines_final = <<>>
              /\ wpc = "idle" /\ ws = <<>> /\ wi = 0 /\ output = <<>> /\ run = 0
UsageIdle == /\ text = <<>> /\ upc = "idle" /\ parsed = <<>> /\ cleaned = <<>>
             /\ result = <<>>

UInit == /\ text \in InputTexts
         /\ upc = "start"
         /\ parsed = <<>>
         /\ cleaned = <<>>
         /\ result = <<>>
         /\ HeaderIdle
         /\ WriterIdle

\* lines 158-209: the lines and the primary pass
UPrimary ==
    /\ upc = "start"
    /\ LET p == PrimaryPass(UsageLines(text), 1, <<>>)
       IN /\ parsed' = p.parsed
          /\ upc' = IF p.raised THEN "raised" ELSE "primary"
    /\ UNCHANGED <<text, cleaned, result, headerVars, writerVars>>

\* lines 211-228: the fallback pass
UFallback ==
    /\ upc = "primary"
    /\ LET p == FallbackPass(UsageLines(text), parsed)
       IN /\ parsed' = p.parsed
          /\ upc' = IF p.raised THEN "raised" ELSE "fallback"
    /\ UNCHANGED <<text, cleaned, result, headerVars, writerVars>>

\* lines 231-250: every item is normalised in place, the kept ones collected
UNormalize ==
    /\ upc = "fallback"
    /\ parsed' = NormalizeAll(parsed)
    /\ cleaned' = CleanItems(parsed)
    /\ upc' = "cleaned"
    /\ UNCHANGED <<text, result, headerVars, writerVars>>

\* line 253
UReturn ==
    /\ upc = "cleaned"
    /\ result' = Truncate(cleaned)
    /\ upc' = "returned"
    /\ UNCHANGED <<text, parsed, cleaned, headerVars, writerVars>>

UNext == UPrimary \/ UFallback \/ UNormalize \/ UReturn
SpecUsage == UInit /\ [][UNext]_vars

\* ------------------------------------------------------------------
\* parse_header_fields
\* ------------------------------------------------------------------
\* [:\s]*
ColonSpaces == Star(Set({":"} \cup SpaceSet))
\* [A-Z0-9\-]
IdChars == Set(UpperSet \cup DigitSet \cup {"-"})
\* [A-Z\-\&\.\,\s0-9]
NameChars == Set(UpperSet \cup DigitSet \cup SpaceSet \cup {"-", "&", ".", ","})
\* [A-Za-z0-9 \-&]
RetailerChars == Set(UpperSet \cup LowerSet \cup DigitSet \cup {" ", "-", "&"})
\* [A-Z0-9a-z\,\.\-\/\s]
AddressChars == Set(UpperSet \cup LowerSet \cup DigitSet \cup SpaceSet \cup {",", ".", "-", "/"})
\* [A-Za-z]
Letter == Set(UpperSet \cup LowerSet)
\* [\d\/\-\s]
DateChars == Set(DigitSet \cup SpaceSet \cup {"/", "-"})
\* . without re.DOTALL
AnyChar == NotSet({"\n"})
\* \$?([\d,]+\.\d{2})
MoneyGroup == Cat(<<Opt(Chr("$")),
                    Grp(1, Cat(<<Plus(Set(DigitSet \cup {","})), Chr("."), Rep(Dg, 2, 2)>>))>>)
\* [\d]{1,2}\s+[A-Za-z]{3,9}\s+\d{4}
DayMonthYear == Cat(<<Rep(Dg, 1, 2), Plus(Sp), Rep(Letter, 3, 9), Plus(Sp), Rep(Dg, 4, 4)>>)

\* line 123
NmiPatterns ==
    <<Cat(<<Lit(<<"N","M","I">>), ColonSpaces, Grp(1, Plus(IdChars))>>),
      Cat(<<Lit(<<"N","M","I","/","M","I","R","N">>), ColonSpaces, Grp(1, Plus(Set(DigitSet \cup {"-"})))>>),
      Cat(<<WB, Grp(1, Rep(Dg, 10, 13)), WB>>)>>
\* line 125
AccountPatterns ==
    <<Cat(<<Lit(<<"A","c","c","o","u","n","t">>), Star(Sp), Lit(<<"N","u","m","b","e","r">>), ColonSpaces, Grp(1, Plus(IdChars))>>),
      Cat(<<Lit(<<"A","c","c","o","u","n","t">>), Star(Sp), Lit(<<"N","o">>), ColonSpaces, Grp(1, Plus(IdChars))>>)>>
\* line 127
CustomerPatterns ==
    <<Cat(<<Lit(<<"A","c","c","o","u","n","t">>), Star(Sp), Lit(<<"N","a","m","e">>), ColonSpaces, Grp(1, Plus(NameChars))>>),
      Cat(<<Lit(<<"C","u","s","t","o","m","e","r">>), ColonSpaces, Grp(1, Plus(NameChars))>>),
      Cat(<<Lit(<<"B","i","l","l"," ","t","o">>), ColonSpaces, Grp(1, Plus(NameChars))>>)>>
\* line 129
RetailerPatterns ==
    <<Cat(<<Lit(<<"R","e","t","a","i","l","e","r">>), ColonSpaces, Grp(1, Plus(RetailerChars))>>),
      Cat(<<Lit(<<"C","u","r","r","e","n","t">>), Star(Sp), Lit(<<"E","n","e","r","g","y">>), Star(Sp), Lit(<<"R","e","t","a","i","l","e","r">>), ColonSpaces,
            Grp(1, Plus(RetailerChars))>>)>>
\* line 131
AddressPatterns ==
    <<Cat(<<Lit(<<"S","e","r","v","i","c","e">>), Star(Sp), Lit(<<"A","d","d","r","e","s","s">>), ColonSpaces, Grp(1, Plus(AddressChars))>>),
      Cat(<<Lit(<<"S","i","t","e"," ","A","d","d","r","e","s","s">>), ColonSpaces, Grp(1, Plus(AddressChars))>>),
      Grp(1, Cat(<<Plus(Dg), Plus(Sp), Plus(Set(UpperSet \cup LowerSet \cup DigitSet \cup SpaceSet)),
                   Plus(Sp),
                   Grp(2, Alt(<<Lit(<<"R","o","a","d">>), Lit(<<"R","d">>), Lit(<<"S","t","r","e","e","t">>), Lit(<<"S","t">>), Lit(<<"D","r","i","v","e">>), Lit(<<"D","r">>),
                                Lit(<<"L","a","n","e">>), Lit(<<"L","n">>), Lit(<<"W","a","y">>), Lit(<<"A","v","e">>), Lit(<<"A","v","e","n","u","e">>)>>)),
                   Star(NotSet({"\n", "\r"}))>>))>>
\* line 133
PeriodPatterns ==
    <<Cat(<<Lit(<<"B","i","l","l">>), Star(Sp), Lit(<<"P","e","r","i","o","d">>), ColonSpaces,
            Grp(1, Cat(<<DayMonthYear, Star(Sp), Chr("-"), Star(Sp), DayMonthYear>>))>>),
      Cat(<<Lit(<<"P","e","r","i","o","d">>), ColonSpaces,
            Grp(1, Cat(<<Plus(DateChars), Lit(<<"t","o">>), Plus(DateChars)>>))>>)>>
\* line 135
TotalPatterns ==
    <<Cat(<<Lit(<<"T","o","t","a","l">>), Star(Sp), Lit(<<"A","m","o","u","n","t">>), ColonSpaces, MoneyGroup>>),
      Cat(<<Lit(<<"T","o","t","a","l">>), Star(Sp), Chr("("), Lit(<<"G","S","T">>), Star(AnyChar), Chr(")"), ColonSpaces,
            MoneyGroup>>),
      Cat(<<Lit(<<"A","m","o","u","n","t">>), Star(Sp), Lit(<<"D","u","e">>), ColonSpaces, MoneyGroup>>)>>

\* the keys of out in the order of lines 123-135, each with its patterns
HeaderFields ==
    <<[key |-> "NMI", patterns |-> NmiPatterns],
      [key |-> "Account Number", patterns |-> AccountPatterns],
      [key |-> "Customer Name", patterns |-> CustomerPatterns],
      [key |-> "Retailer", patterns |-> RetailerPatterns],
      [key |-> "Site Address", patterns |-> AddressPatterns],
      [key |-> "Billing Period", patterns |-> PeriodPatterns],
      [key |-> "Total Charges", patterns |-> TotalPatterns]>>

\* m.lastindex is truthy: some group took part in the match
HasLastIndex(m) == \E g \in DOMAIN m.caps : m.caps[g] # <<>>
\* m.group(1) is None: group 1 took no part in the match
Group1IsNone(m) == m.caps[1] = <<>>
\* m.group(1)
Group1(s, m) == Slice(s, m.caps[1][1], m.caps[1][2] - 1)

RECURSIVE FindFirstFrom(_, _, _)
\* find_first_regex from pattern k on: [raised, value]
FindFirstFrom(t, patterns, k) ==
    IF k > Len(patterns) THEN [raised |-> FALSE, value |-> <<>>]
    ELSE LET m == Search(patterns[k], t, TRUE)
         IN IF Found(m)
            THEN IF HasLastIndex(m)
                 THEN IF Group1IsNone(m)
                      THEN [raised |-> TRUE, value |-> <<>>]
                      ELSE [raised |-> FALSE, value |-> Strip(Group1(t, m))]
                 ELSE [raised |-> FALSE, value |-> Strip(Group0(t, m))]
            ELSE FindFirstFrom(t, patterns, k + 1)

RECURSIVE FindLastFrom(_, _, _)
\* find_first_regex with the last matching pattern winning
FindLastFrom(t, patterns, k) ==
    IF k < 1 THEN [raised |-> FALSE, value |-> <<>>]
    ELSE LET m == Search(patterns[k], t, TRUE)
         IN IF Found(m)
            THEN [raised |-> FALSE, value |-> Strip(Group1(t, m))]
            ELSE FindLastFrom(t, patterns, k - 1)
find_first_regex_Last(t, patterns) == FindLastFrom(t, patterns, Len(patterns))

\* find_first_regex
find_first_regex(t, patterns) == FindFirstFrom(t, patterns, 1)

\* ------------------------------------------------------------------
\* parse_header_fields: the texts it is run on, and its steps
\* ------------------------------------------------------------------
\* "NMI: N12 41031234567"
HlNmi == <<"N","M","I",":"," ","N","1","2"," ","4","1","0","3","1","2","3","4","5","6","7">>
\* "NMI/MIRN 41-03"
HlMirn == <<"N","M","I","/","M","I","R","N"," ","4","1","-","0","3">>
\* "Account Number: 123-456-789"
HlAccount == <<"A","c","c","o","u","n","t"," ","N","u","m","b","e","r",":"," ","1","2","3","-","4","5","6","-","7","8","9">>
\* "Account No 77"
HlAccountNo == <<"A","c","c","o","u","n","t"," ","N","o"," ","7","7">>
\* "Customer: "
HlCustomerBlank == <<"C","u","s","t","o","m","e","r",":"," ">>
\* "Account Name: J & K Pty"
HlAccountName == <<"A","c","c","o","u","n","t"," ","N","a","m","e",":"," ","J"," ","&"," ","K"," ","P","t","y">>
\* "Retailer: AGL"
HlRetailer == <<"R","e","t","a","i","l","e","r",":"," ","A","G","L">>
\* "Service Address: 12 High St"
HlService == <<"S","e","r","v","i","c","e"," ","A","d","d","r","e","s","s",":"," ","1","2"," ","H","i","g","h"," ","S","t">>
\* "12 High Street, Kew"
HlStreet == <<"1","2"," ","H","i","g","h"," ","S","t","r","e","e","t",","," ","K","e","w">>
\* "Bill Period: 1 Jan 2024 - 31 Jan 2024"
HlBillPeriod == <<"B","i","l","l"," ","P","e","r","i","o","d",":"," ","1"," ","J","a","n"," ","2","0","2","4"," ","-"," ","3","1"," ","J","a","n"," ","2","0","2","4">>
\* "Period: 01/01 to 31/01"
HlPeriod == <<"P","e","r","i","o","d",":"," ","0","1","/","0","1"," ","t","o"," ","3","1","/","0","1">>
\* "Total Amount: $1,542.10"
HlTotalAmount == <<"T","o","t","a","l"," ","A","m","o","u","n","t",":"," ","$","1",",","5","4","2",".","1","0">>
\* "Total (GST incl): 542.10"
HlTotalGst == <<"T","o","t","a","l"," ","(","G","S","T"," ","i","n","c","l",")",":"," ","5","4","2",".","1","0">>
\* "Amount Due $542.10"
HlAmountDue == <<"A","m","o","u","n","t"," ","D","u","e"," ","$","5","4","2",".","1","0">>
\* "Thank you"
HlNothing == <<"T","h","a","n","k"," ","y","o","u">>
\* the texts of one line
HeaderSingleLines == {HlNmi,
                      HlMirn,
                      HlAccount,
                      HlAccountNo,
                      HlCustomerBlank,
                      HlAccountName,
                      HlRetailer,
                      HlService,
                      HlStreet,
                      HlBillPeriod,
                      HlPeriod,
                      HlTotalAmount,
                      HlTotalGst,
                      HlAmountDue,
                      HlNothing}
\* the lines of the texts of several lines
HeaderLibLines == {HlNmi, HlAccount, HlAccountNo, HlAccountName, HlStreet, HlNothing}
\* most lines of a header text
MaxHeaderLines == 2
HeaderTexts ==
    HeaderSingleLines
    \cup {JoinLines(ls) : ls \in UNION {[1..k -> HeaderLibLines] : k \in 2..MaxHeaderLines}}

HInit == /\ text \in HeaderTexts
         /\ hpc = "parsing"
         /\ out = <<>>
         /\ upc = "idle" /\ parsed = <<>> /\ cleaned = <<>> /\ result = <<>>
         /\ WriterIdle

\* one of lines 123-135: out[key] = find_first_regex(text, [...])
HParseField ==
    /\ hpc = "parsing"
    /\ Len(out) < Len(HeaderFields)
    /\ LET f == HeaderFields[Len(out) + 1]
           r == find_first_regex(text, f.patterns)
       IN IF r.raised
          THEN hpc' = "raised" /\ out' = out
          ELSE hpc' = hpc /\ out' = Append(out, [key |-> f.key, value |-> r.value])
    /\ UNCHANGED <<usageVars, writerVars>>

\* line 136
HReturn ==
    /\ hpc = "parsing"
    /\ Len(out) = Len(HeaderFields)
    /\ hpc' = "returned"
    /\ UNCHANGED <<out, usageVars, writerVars>>

HNext == HParseField \/ HReturn
SpecHeader == HInit /\ [][HNext]_vars

\* the value the claim names for a field: the trimmed group 1 of the first
\* pattern, in list order, that matches anywhere in the text, else empty
ClaimHeaderValue(patterns) ==
    LET hits == {k \in DOMAIN patterns : Found(Search(patterns[k], text, TRUE))}
    IN IF hits = {} THEN <<>>
       ELSE LET m == Search(patterns[Nth(hits, 1)], text, TRUE)
            IN Strip(IF m.caps[1] # <<>> THEN Group1(text, m) ELSE Group0(text, m))
KnownHeaderKeys == {"NMI", "Account Number", "Customer Name", "Retailer",
                    "Site Address", "Billing Period", "Total Charges"}

\* C7: parse_header_fields never raises; the map it returns has every known
\* key, each with the trimmed capture of the first pattern of its list that
\* matches, or the empty string when none matches.
C7_HeaderFields ==
    /\ hpc # "raised"
    /\ hpc = "returned" =>
          /\ {out[i].key : i \in DOMAIN out} = KnownHeaderKeys
          /\ Len(out) = Cardinality(KnownHeaderKeys)
          /\ \A i \in DOMAIN out :
                \E j \in DOMAIN HeaderFields :
                    /\ HeaderFields[j].key = out[i].key
                    /\ out[i].value = ClaimHeaderValue(HeaderFields[j].patterns)

\* a returned map with a field a later pattern of its list filled, a field two
\* patterns compete for, and a field left empty
C7_Witness ==
    /\ hpc = "returned"
    /\ \E i \in DOMAIN out : out[i].key = "Account Number" /\ out[i].value = <<"7","7">>
    /\ \E i \in DOMAIN out : out[i].key = "NMI" /\ out[i].value = <<"N","1","2">>
    /\ \E i \in DOMAIN out : out[i].key = "Retailer" /\ out[i].value = <<>>

\* ------------------------------------------------------------------
\* write_usage_to_template: values, cells, safe_val
\* ------------------------------------------------------------------
\* Python values: None, a str, a float (v is its repr: digits, "nan", "inf"),
\* a list (v is its str())
NoneVal == [t |-> "None", v |-> <<>>]
StrVal(chars) == [t |-> "str", v |-> chars]
FloatVal(chars) == [t |-> "float", v |-> chars]
ListVal(chars) == [t |-> "list", v |-> chars]
NanVal == FloatVal(<<"n","a","n">>)
InfVal == FloatVal(<<"i","n","f">>)

\* s.replace(".", "", 1)
RemoveFirstDot(s) == Slice(s, 1, DotAt(s) - 1) \o Slice(s, DotAt(s) + 1, Len(s))
\* str.isdigit()
IsDigitStr(s) == s # <<>> /\ AllDigits(s)

\* safe_val; a number (int or float) is a "float" value here
safe_val(v) ==
    IF v.t = "None" THEN StrVal(<<>>)
    ELSE IF v.t = "list" THEN StrVal(v.v)
    ELSE IF v.t = "float" THEN v
    ELSE LET s == Strip(v.v)
         IN IF IsDigitStr(RemoveFirstDot(s)) THEN FloatVal(StrFloat(s)) ELSE StrVal(s)

\* d.get(key) of a dict held as a function
Get(d, key) == IF key \in DOMAIN d THEN d[key] ELSE NoneVal

\* line 345
start_row == 34
\* lines 348-351: the column of each field of a usage line
unit_col == 1
desc_col == 3
before_col == 4
disc_col == 5
TableCols == {unit_col, desc_col, before_col, disc_col}
\* the field written to a column
FieldOf(c) == CASE c = unit_col -> "Units" [] c = desc_col -> "Description"
                [] c = before_col -> "Rate" [] c = disc_col -> "Discount"
\* lines 336-342: the header cells and the key each is filled from
HeaderCells == [A6 |-> "Customer Name", B15 |-> "Meter Type",
                B16 |-> "Tariff Classification", B17 |-> "Distribution Region",
                B18 |-> "Site Address", B19 |-> "NMI", B20 |-> "Retailer"]

\* most usage lines of one invocation; the table rows of the sheet
MaxRows == 3
\* most invocations in a row, each on the output of the one before
MaxRuns == 2
TableRows == start_row..(start_row + MaxRows - 1)
\* the last table row of the sheet
LastRow == start_row + MaxRows - 1

\* a template with nothing in the cells the writer fills
BlankSheet == [hdr |-> [c \in DOMAIN HeaderCells |-> NoneVal],
               tab |-> [r \in TableRows |-> [c \in TableCols |-> NoneVal]]]
\* no spreadsheet bytes
NoOutput == <<>>

\* ------------------------------------------------------------------
\* write_usage_to_template: the arguments it is run on
\* ------------------------------------------------------------------
\* a parsed usage line, its rate edited to a number
ItemPeak == [isdict |-> TRUE,
             d |-> [Units |-> StrVal(<<"2","2","4","9","1",".","8">>),
                    Description |-> StrVal(<<"P","e","a","k">>),
                    Rate |-> FloatVal(<<"0",".","0","6","3","2">>),
                    Discount |-> StrVal(<<>>)]]
\* an edited row: blank cells (NaN), a list, a negative number as text, no Discount
ItemEdited == [isdict |-> TRUE,
               d |-> [Units |-> NanVal,
                      Description |-> ListVal(<<"[","'","a","'","]">>),
                      Rate |-> StrVal(<<"-","5">>)]]
\* an element that is no dict: a bare string
ItemNotDict == [isdict |-> FALSE, d |-> StrVal(<<"P","e","a","k">>)]
UsageItems == {ItemPeak, ItemEdited, ItemNotDict}

\* the map parse_header_fields returns
HeadersParsed == [x \in {"NMI", "Account Number", "Customer Name", "Retailer",
                         "Site Address", "Billing Period", "Total Charges"} |->
                    IF x = "NMI" THEN StrVal(<<"4","1","0","3","1","2","3","4","5","6","7">>)
                    ELSE IF x = "Customer Name" THEN StrVal(<<"J"," ","&"," ","K">>)
                    ELSE StrVal(<<>>)]
\* a map with the other keys the writer reads
HeadersOther == [x \in {"Customer Name", "Meter Type", "Tariff Classification",
                        "Distribution Region"} |->
                    IF x = "Customer Name" THEN NanVal
                    ELSE IF x = "Meter Type" THEN InfVal
                    ELSE StrVal(<<"T","O","U">>)]
HeaderInputs == {HeadersParsed, HeadersOther}
UsageInputs == UNION {[1..k -> UsageItems] : k \in 0..MaxRows}

\* ------------------------------------------------------------------
\* write_usage_to_template: its steps
\* ------------------------------------------------------------------
WInit == /\ template = BlankSheet
         /\ headers \in HeaderInputs
         /\ usage_lines_final \in UsageInputs
         /\ wpc = "start"
         /\ ws = BlankSheet
         /\ wi = 0
         /\ output = NoOutput
         /\ run = 1
         /\ UsageIdle
         /\ HeaderIdle

\* lines 331-333: the workbook is loaded from the template bytes
WLoad ==
    /\ wpc = "start"
    /\ ws' = template
    /\ wpc' = "headers"
    /\ UNCHANGED <<template, headers, usage_lines_final, wi, output, run,
                   usageVars, headerVars>>

\* lines 336-342
WHeaders ==
    /\ wpc = "headers"
    /\ ws' = [ws EXCEPT !.hdr = [c \in DOMAIN HeaderCells |->
                                    safe_val(Get(headers, HeaderCells[c]))]]
    /\ wpc' = "rows"
    /\ wi' = 0
    /\ UNCHANGED <<template, headers, usage_lines_final, output, run,
                   usageVars, headerVars>>

\* WRow with an element that is no dict skipped
WRow_Skip ==
    /\ wpc = "rows"
    /\ wi < Len(usage_lines_final)
    /\ LET line == usage_lines_final[wi + 1]
           r == start_row + wi
       IN IF ~line.isdict
          THEN ws' = ws
          ELSE ws' = [ws EXCEPT !.tab[r] =
                         [c \in TableCols |-> safe_val(Get(line.d, FieldOf(c)))]]
    /\ wpc' = wpc
    /\ wi' = wi + 1
    /\ UNCHANGED <<template, headers, usage_lines_final, output, run,
                   usageVars, headerVars>>

\* lines 354-363: one turn of the loop
WRow ==
    /\ wpc = "rows"
    /\ wi < Len(usage_lines_final)
    /\ LET line == usage_lines_final[wi + 1]
           r == start_row + wi
       IN IF ~line.isdict
          THEN /\ wpc' = "raised"
               /\ UNCHANGED <<ws, wi>>
          ELSE /\ ws' = [ws EXCEPT !.tab[r] =
                            [c \in TableCols |-> safe_val(Get(line.d, FieldOf(c)))]]
               /\ wi' = wi + 1
               /\ wpc' = wpc
    /\ UNCHANGED <<template, headers, usage_lines_final, output, run,
                   usageVars, headerVars>>

\* lines 366-369
WSave ==
    /\ wpc = "rows"
    /\ wi = Len(usage_lines_final)
    /\ output' = ws
    /\ wpc' = "done"
    /\ UNCHANGED <<template, headers, usage_lines_final, ws, wi, run,
                   usageVars, headerVars>>

\* lines 441-454: the next invocation, its template the workbook just filled
WAgain ==
    /\ wpc = "done"
    /\ run < MaxRuns
    /\ template' = output
    /\ headers' \in HeaderInputs
    /\ usage_lines_final' \in UsageInputs
    /\ wpc' = "start"
    /\ ws' = BlankSheet
    /\ wi' = 0
    /\ output' = NoOutput
    /\ run' = run + 1
    /\ UNCHANGED <<usageVars, headerVars>>

WNext == WLoad \/ WHeaders \/ WRow \/ WSave \/ WAgain
SpecWriter == WInit /\ [][WNext]_vars

\* ------------------------------------------------------------------
\* write_usage_to_template: properties
\* ------------------------------------------------------------------
IsEmptyCell(v) == v = NoneVal \/ v = StrVal(<<>>)

\* C4: once the usage lines are written, every table cell from row
\* start_row + k to the last table row is empty, whatever the template held.
C4_RowsBeyondCleared ==
    wpc = "done" =>
        \A r \in (start_row + Len(usage_lines_final))..LastRow :
            \A c \in TableCols : IsEmptyCell(output.tab[r][c])

\* a str that float() takes: digits with at most one ".", after a sign or none
ParsesAsNumber(s) ==
    LET body == IF s # <<>> /\ Head(s) \in {"-", "+"} THEN Tail(s) ELSE s
    IN body # <<>> /\ CanFloat(body)
\* the float of such a str, as its repr
NumberOf(s) ==
    IF Head(s) = "-" THEN <<"-">> \o StrFloat(Tail(s))
    ELSE IF Head(s) = "+" THEN StrFloat(Tail(s)) ELSE StrFloat(s)
\* the cell the claim names for a value
ClaimCell(v) ==
    IF v.t = "None" THEN StrVal(<<>>)
    ELSE IF v.t = "list" THEN StrVal(v.v)
    ELSE IF v.t = "float" THEN (IF v \in {NanVal, InfVal} THEN StrVal(<<>>) ELSE v)
    ELSE IF ParsesAsNumber(Strip(v.v)) THEN FloatVal(NumberOf(Strip(v.v)))
    ELSE StrVal(v.v)

\* C5: every cell written holds the value the claim names: a number for a
\* scalar that parses as one, else the text; the text of a list; empty text
\* for None, NaN and infinity.
C5_CellValues ==
    wpc = "done" =>
        /\ \A c \in DOMAIN HeaderCells :
              output.hdr[c] = ClaimCell(Get(headers, HeaderCells[c]))
        /\ \A i \in DOMAIN usage_lines_final :
              \A c \in TableCols :
                  output.tab[start_row + i - 1][c]
                      = ClaimCell(Get(usage_lines_final[i].d, FieldOf(c)))

\* the first element that is no dict, or 0
FirstNotDict ==
    LET bad == {i \in DOMAIN usage_lines_final : ~usage_lines_final[i].isdict}
    IN IF bad = {} THEN 0 ELSE Nth(bad, 1)

\* C6: with an element that is no dict in the list, the invocation never saves
\* a workbook; it raises at the first such element, with no output, and that
\* element's row and the rows of the later elements still hold what the
\* template held.
C6_NotDictRaises ==
    /\ (wpc = "done" => FirstNotDict = 0)
    /\ (FirstNotDict # 0 /\ wpc \in {"start", "headers", "rows", "raised"}
          => output = NoOutput /\ wi < FirstNotDict)
    /\ (wpc = "raised" =>
          /\ wi + 1 = FirstNotDict
          /\ output = NoOutput
          /\ \A r \in (start_row + wi)..LastRow : ws.tab[r] = template.tab[r])

\* raised at a second element that is no dict, a third after it, on a
\* template an earlier invocation filled
C6_Witness ==
    /\ wpc = "raised"
    /\ wi = 1
    /\ Len(usage_lines_final) = 3
    /\ run = 2
    /\ template.tab[start_row + 1] # BlankSheet.tab[start_row + 1]

\* ------------------------------------------------------------------
\* parse_usage_lines: properties
\* ------------------------------------------------------------------
\* the lines the primary pass accepts, in the order of the text
AcceptedLines == SelectSeq(UsageLines(text), PrimaryAccepts)
HasDigit(s) == \E i \in DOMAIN s : s[i] \in DigitSet
\* w stands in s at position i, whatever the case of the letters
OccursAt(s, w, i) ==
    /\ i + Len(w) - 1 <= Len(s)
    /\ \A k \in DOMAIN w : Lower(s[i + k - 1]) = Lower(w[k])
\* s contains w somewhere, also inside a longer word
ContainsText(s, w) == \E i \in DOMAIN s : OccursAt(s, w, i)
\* s contains w as a word: no letter, digit or "_" next to it on either side
ContainsWord(s, w) ==
    \E i \in DOMAIN s :
        /\ OccursAt(s, w, i)
        /\ (i = 1 \/ s[i - 1] \notin WordSet)
        /\ (i + Len(w) > Len(s) \/ s[i + Len(w)] \notin WordSet)
SummaryWords == {<<"t","o","t","a","l">>, <<"g","s","t">>,
                 <<"a","m","o","u","n","t"," ","d","u","e">>,
                 <<"b","a","l","a","n","c","e">>}

\* C1: parse_usage_lines returns a list for every text and never raises; the
\* list is empty when no line matches.
C1_NeverRaises ==
    /\ upc # "raised"
    /\ (upc = "returned"
        /\ \A i \in DOMAIN UsageLines(text) :
              ~PrimaryAccepts(UsageLines(text)[i]) /\ ~FallbackAccepts(UsageLines(text)[i]))
       => result = <<>>

\* C2 as stated: every returned record has a non-empty Description that holds
\* none of the summary keywords, not even inside a longer word.
C2_NoSummarySubstring ==
    upc = "returned" =>
        \A i \in DOMAIN result :
            /\ result[i].Description # <<>>
            /\ \A w \in SummaryWords : ~ContainsText(result[i].Description, w)

\* C2 as amended: every returned record has a non-empty Description that holds
\* none of the summary keywords as a word of its own.
C2_NoSummaryWord ==
    upc = "returned" =>
        \A i \in DOMAIN result :
            /\ result[i].Description # <<>>
            /\ \A w \in SummaryWords : ~ContainsWord(result[i].Description, w)

\* a returned record whose Description holds "total" inside a longer word
C2_Witness ==
    /\ upc = "returned"
    /\ \E i \in DOMAIN result :
          /\ ContainsText(result[i].Description, <<"t","o","t","a","l">>)
          /\ ~ContainsWord(result[i].Description, <<"t","o","t","a","l">>)

\* the lines whose record survives the normalization filter: those of the
\* primary pass, or of the fallback pass when the primary pass accepted none
SurvivorIdx(lines) ==
    LET prim == {i \in DOMAIN lines : PrimaryAccepts(lines[i])}
    IN IF prim # {}
       THEN {i \in prim : Keeps(NormalizeItem(PrimaryRecord(lines[i])))}
       ELSE {i \in DOMAIN lines : /\ FallbackAccepts(lines[i])
                                  /\ Keeps(NormalizeItem(FallbackRecord(lines[i])))}
\* the normalised record of line ln
SurvivorRecord(ln) ==
    NormalizeItem(IF PrimaryAccepts(ln) THEN PrimaryRecord(ln) ELSE FallbackRecord(ln))

\* C3: the returned list is the first min(30, n) of the n records that survive
\* the normalization filter, in the order of their lines in the text.
C3_FirstThirtyInOrder ==
    upc = "returned" =>
        LET lines == UsageLines(text)
            idx == SurvivorIdx(lines)
        IN /\ Len(result) <= 30
           /\ Len(result) = IF Cardinality(idx) < 30 THEN Cardinality(idx) ELSE 30
           /\ \A j \in DOMAIN result : result[j] = SurvivorRecord(lines[Nth(idx, j)])

\* more than 30 records survive, one line in between is dropped, 30 are returned
C3_Witness ==
    /\ upc = "returned"
    /\ Len(result) = 30
    /\ LET idx == SurvivorIdx(UsageLines(text))
       IN Cardinality(idx) > 30 /\ \E i \in 1..30 : i \notin idx

\* the claim's "possible rate": a plain decimal of 3 or 4 places, or a value
\* below 10 (an integer part of at most one digit once leading zeros are gone)
ClaimPossibleRate(n) ==
    /\ n # <<>>
    /\ \/ /\ DotAt(n) <= Len(n)
          /\ IntDigits(n) # <<>> /\ AllDigits(IntDigits(n))
          /\ Len(FracDigits(n)) \in {3, 4} /\ AllDigits(FracDigits(n))
       \/ Len(LStrip(IntDigits(n), {"0"})) <= 1

\* C8 as stated: a line of the primary pass with exactly one numeric token
\* yields Units = that token and an empty Rate, whatever the token.
C8_SingleTokenIsUnits ==
    upc = "primary" =>
        LET acc == AcceptedLines IN
        \A j \in DOMAIN acc :
            LET nums == extract_numbers_from_string(acc[j])
            IN Len(nums) = 1 => parsed[j].Units = nums[1] /\ parsed[j].Rate = <<>>

\* C8 as amended: with exactly one numeric token, Units is the token and Rate
\* is empty when the token is no possible rate; when it is a possible rate,
\* Rate is the token and Units is empty.
C8_SingleToken ==
    upc = "primary" =>
        LET acc == AcceptedLines IN
        \A j \in DOMAIN acc :
            LET nums == extract_numbers_from_string(acc[j])
            IN Len(nums) = 1 =>
                  IF ClaimPossibleRate(nums[1])
                  THEN parsed[j].Rate = nums[1] /\ parsed[j].Units = <<>>
                  ELSE parsed[j].Units = nums[1] /\ parsed[j].Rate = <<>>

\* both cases of one token: a small one and a large one
C8_Witness ==
    /\ upc = "primary"
    /\ LET acc == AcceptedLines IN
       \E j \in DOMAIN acc :
          LET nums == extract_numbers_from_string(acc[j])
          IN Len(nums) = 1 /\ ClaimPossibleRate(nums[1]) /\ parsed[j].Rate = nums[1]

\* the claim's units and rate of two or more tokens
ClaimUnitsRate(nums) ==
    LET rateIdx == {i \in DOMAIN nums : ClaimPossibleRate(nums[i])}
    IN IF rateIdx # {}
       THEN LET rate == nums[Nth(rateIdx, 1)]
                otherIdx == {i \in DOMAIN nums : nums[i] # rate}
                maxIdx == {i \in otherIdx :
                              \A k \in otherIdx : ~FloatLess(nums[i], nums[k])}
            IN [Units |-> IF otherIdx = {} THEN <<>> ELSE nums[Nth(maxIdx, 1)],
                Rate |-> rate]
       ELSE [Units |-> nums[1], Rate |-> nums[2]]

\* C9: every line of the primary pass with two or more numeric tokens yields a
\* record with the Rate and the Units the claim names.
C9_UnitsRate ==
    upc \in {"primary", "raised"} =>
        LET acc == AcceptedLines IN
        \A j \in DOMAIN acc :
            LET nums == extract_numbers_from_string(acc[j])
            IN Len(nums) >= 2 =>
                  /\ j <= Len(parsed)
                  /\ parsed[j].Units = ClaimUnitsRate(nums).Units
                  /\ parsed[j].Rate = ClaimUnitsRate(nums).Rate

\* C9 where the code does not raise: the records of the primary pass have the
\* Rate and the Units the claim names.
C9_UnitsRateOfRecords ==
    upc = "primary" =>
        LET acc == AcceptedLines IN
        \A j \in DOMAIN acc :
            LET nums == extract_numbers_from_string(acc[j])
            IN Len(nums) >= 2 =>
                  /\ parsed[j].Units = ClaimUnitsRate(nums).Units
                  /\ parsed[j].Rate = ClaimUnitsRate(nums).Rate

\* C10: the Description of a record of the primary pass holds no digit and,
\* when the line carries a discount, no percent sign.
C10_NoPercentLeft ==
    upc = "primary" =>
        LET acc == AcceptedLines IN
        \A j \in DOMAIN acc :
            /\ ~HasDigit(parsed[j].Description)
            /\ DiscountOf(acc[j]) # <<>>
                  => ~ContainsText(parsed[j].Description, <<"%">>)

\* the lines the fallback pass's test takes, in order
FallbackLines == SelectSeq(UsageLines(text), FallbackAccepts)

\* C11: the fallback pass runs exactly when the primary pass left no record.
\* With a line that passed the primary test, the records after the fallback
\* step are the primary records of those lines and every returned record is
\* the normalised primary record of one of them; with no such line, the
\* records are the fallback records of the lines the fallback test takes.
C11_FallbackOnlyWhenNoPrimary ==
    LET acc == AcceptedLines
        fb == FallbackLines
    IN /\ (upc = "fallback" /\ acc # <<>>
            => parsed = [j \in DOMAIN acc |-> PrimaryRecord(acc[j])])
       /\ (upc = "fallback" /\ acc = <<>>
            => parsed = [j \in DOMAIN fb |-> FallbackRecord(fb[j])])
       /\ (upc = "returned" /\ acc # <<>>
            => \A i \in DOMAIN result :
                  \E j \in DOMAIN acc :
                      result[i] = NormalizeItem(PrimaryRecord(acc[j])))

\* returned empty: a line passed the primary test, the filter dropped every
\* primary record, and a line the fallback test takes was left unused
C11_Witness ==
    /\ upc = "returned"
    /\ result = <<>>
    /\ AcceptedLines # <<>>
    /\ \E j \in DOMAIN FallbackLines :
          /\ ~PrimaryAccepts(FallbackLines[j])
          /\ Keeps(NormalizeItem(FallbackRecord(FallbackLines[j])))
====
